---- MODULE Spec2Model ----
(***************************************************************************)
(* A model of the verify (2FA) request lifecycle of vonage-rs:             *)
(* ClientBuilder -> Client::verify -> Verify builder -> send ->            *)
(* PendingVerify -> check / cancel / trigger_next_event, and               *)
(* verify::search (specification Spec); and of the signing of a parameter  *)
(* set by Signature::sign (specification SpecSig).                         *)
(*                                                                         *)
(* Every asynchronous operation is split at its single await point on the  *)
(* transport (http_client.call(request).await): a ...Start action runs the *)
(* code up to the call, a ...Finish action runs the code after the         *)
(* response (or transport error) has come back.                            *)
(***************************************************************************)
EXTENDS Integers, Sequences, FiniteSets, TLC

\* ---------------------------------------------------------------- bounds
\* Longest list of handles given to one search call.
MaxSearch == 2
\* Longest record list the provider answers a search with.
MaxList == 2
\* Cap on the per-chain history counter of check requests.
MaxChecksSent == 6
\* Longest chain of api_key / jwt calls made on one ClientBuilder.
MaxBuilderCalls == 3
\* Longest value of a query parameter given to sign, in characters.
MaxValueLen == 1
\* Most jti identifiers one behaviour follows.
MaxJtis == 2
\* Last reading of the system clock, in ticks of 100 ns.
MaxClock == 1

\* ------------------------------------------------------- program constants
MAX_CHECK_ATTEMPTS == 3

VONAGE_URL_BASE == "https://api.nexmo.com"

\* ----------------------------------------------------------------- inputs
\* The (api key, api secret) pairs a client can have been built with.
ApiKeyPairs == {<<"key-a", "secret-a">>, <<"key-b", "secret-b">>}

\* The (application id, private key) pairs a client can have been built with.
Jwts == {<<"app-1", "pem-1">>}

\* Option::None of Auth.api_key and of Auth.jwt.
None == <<"", "">>

\* Auth::default(): no credentials.
NoAuth == [api_key |-> None, jwt |-> None]

\* Request ids the provider hands out.
RequestIds == {"req-1", "req-2"}

\* PIN codes the user types.
Codes == {"1234", "9999"}

\* enum CodeLength (None = not set on the builder).
CodeLengths == {"None", "Four", "Six"}

\* enum Workflow as its wire value 1..7 (0 = not set on the builder).
Workflows == 0..7

\* The statuses enum ErrorCode of verify.rs can deserialize.
ErrorCode == {"1", "2", "3", "4", "5", "6", "7", "8", "9", "10",
              "15", "16", "17", "19", "20"}

\* HTTP statuses other than 200 the provider may answer with.
OtherHttpStatuses == {401, 500}

\* ------------------------------------------------------------- the values
NoHandle ==
    [api_key |-> "", api_secret |-> "", request_id |-> "", attempts_remaining |-> 0]

NoBuilder ==
    [variant |-> "none", api_key |-> "", api_secret |-> "",
     code_length |-> "None", workflow_id |-> 0]

\* The position of the asynchronous call in progress: the operation that is
\* waiting for its response, the value moved into it (self of check, the
\* builder of send), the number of handles a search was given, and the
\* requests it has issued.
Idle == [op |-> "idle", self |-> NoHandle, body |-> NoBuilder, n |-> 0, requests |-> 0]

\* A response of the transport: the call itself may fail (transport =
\* "error"), the body may fail to arrive (transport = "body_error"), or a
\* response with an HTTP status and a JSON body arrives.  status is the
\* body's "status" field ("malformed": the body is no JSON of the expected
\* shape), request_id the payload of a success body, list the records of a
\* search answer.
Resp(t, h, st, rid, l) ==
    [transport |-> t, http |-> h, status |-> st, request_id |-> rid, list |-> l]

NoResp == Resp("none", 0, "", "", <<>>)

\* What the provider and the network can answer to a verify request.
Responses ==
    {Resp("error", 0, "", "", <<>>), Resp("body_error", 200, "", "", <<>>)}
    \cup {Resp("ok", h, "", "", <<>>) : h \in OtherHttpStatuses}
    \cup {Resp("body_error", h, "", "", <<>>) : h \in OtherHttpStatuses}
    \cup {Resp("ok", h, "0", rid, <<>>) : h \in OtherHttpStatuses, rid \in RequestIds}
    \cup {Resp("ok", h, "16", "", <<>>) : h \in OtherHttpStatuses}
    \cup {Resp("ok", 200, "0", rid, <<>>) : rid \in RequestIds}
    \cup {Resp("ok", 200, st, "", <<>>) : st \in ErrorCode \cup {"101", "malformed"}}

\* The statuses the enum ErrorCode local to search can deserialize.
SearchErrorCode == {"101"}

\* The statuses an error record of a search answer can carry: the one search
\* knows, and one of the provider's other error statuses (internal error).
ItemErrorStatuses == SearchErrorCode \cup {"5"}

\* One record of a search answer: a VerifyInfo for a request id, or an
\* error record with a status.
SearchItems ==
    {[request_id |-> rid, status |-> "info"] : rid \in RequestIds}
    \cup {[request_id |-> "", status |-> st] : st \in ItemErrorStatuses}

SeqUpTo(S, n) == UNION {[1..k -> S] : k \in 0..n}

SearchResponses ==
    {Resp("error", 0, "", "", <<>>), Resp("body_error", 200, "", "", <<>>)}
    \cup {Resp("ok", h, "", "", <<>>) : h \in OtherHttpStatuses}
    \cup {Resp("ok", 200, "malformed", "", <<>>)}
    \cup {Resp("ok", 200, "list", "", l) : l \in SeqUpTo(SearchItems, MaxList)}

\* ------------------------------------------------------------- error.rs
\* struct Error reduced to its ErrorKind (status: the code of Status).
Err(kind, status, mismatch) ==
    [kind |-> kind, status |-> status, code_mismatch |-> mismatch]

NoError == Err("none", 0, FALSE)

new_verify == Err("Verify", 0, FALSE)

new_code_mismatch == Err("Verify", 0, TRUE)

new_auth == Err("Auth", 0, FALSE)

from_hyper_error == Err("Http", 0, FALSE)

from_status_code(code) == Err("Status", code, FALSE)

\* A variant of is_code_mismatch that takes every Verify error for a mismatch.
is_code_mismatch_AnyVerify(e) ==
    e.kind = "Verify"

is_code_mismatch(e) ==
    IF e.kind = "Verify" THEN e.code_mismatch ELSE FALSE

\* -------------------------------------------------------------- auth.rs
\* AuthBuilder::api_key and AuthBuilder::jwt: the field is overwritten.
AuthBuilder_api_key(b, pair) == [b EXCEPT !.api_key = pair]

AuthBuilder_jwt(b, pair) == [b EXCEPT !.jwt = pair]

\* A variant of AuthBuilder::build that insists on the API key.
AuthBuilder_build_RequiresApiKey(b) ==
    IF b.api_key # None
    THEN [ok |-> TRUE, auth |-> b, err |-> NoError]
    ELSE [ok |-> FALSE, auth |-> NoAuth, err |-> new_auth]

\* AuthBuilder::build
AuthBuilder_build(b) ==
    IF b.api_key # None \/ b.jwt # None
    THEN [ok |-> TRUE, auth |-> b, err |-> NoError]
    ELSE [ok |-> FALSE, auth |-> NoAuth, err |-> new_auth]

\* Auth::api_key_pair
api_key_pair(auth) ==
    IF auth.api_key # None
    THEN [ok |-> TRUE, pair |-> auth.api_key, err |-> NoError]
    ELSE [ok |-> FALSE, pair |-> None, err |-> new_auth]

\* ------------------------------------------------------------- verify.rs
\* impl From<VerifyError> for Error
from_verify_error(status) ==
    IF status = "16" THEN new_code_mismatch ELSE new_verify

\* Result<T> of decode_response: the payload's request id on success.
Ok(rid) == [ok |-> TRUE, request_id |-> rid, err |-> NoError]

Fail(e) == [ok |-> FALSE, request_id |-> "", err |-> e]

\* A variant of decode_response that reads and parses the body before it
\* looks at the HTTP status.
decode_response_BodyFirst(resp) ==
    IF resp.transport = "body_error" THEN Fail(from_hyper_error)
    ELSE IF resp.status = "0" THEN Ok(resp.request_id)
    ELSE IF resp.status \in ErrorCode THEN Fail(from_verify_error(resp.status))
    ELSE IF resp.http # 200 THEN Fail(from_status_code(resp.http))
    ELSE Fail(new_verify)

decode_response(resp) ==
    IF resp.http # 200 THEN Fail(from_status_code(resp.http))
    ELSE IF resp.transport = "body_error" THEN Fail(from_hyper_error)
    ELSE IF resp.status = "0" THEN Ok(resp.request_id)
    ELSE IF resp.status \in ErrorCode THEN Fail(from_verify_error(resp.status))
    ELSE Fail(new_verify)

\* fn encode_request: the uri it builds for a path.
encode_request(method, path, ids) ==
    [method |-> method, uri |-> VONAGE_URL_BASE \o "/verify" \o path \o "/json",
     request_ids |-> ids, code |-> "", cmd |-> ""]

\* -------------------------------------------------------------- lib.rs
\* fn encode_request_post
encode_request_post(path, rid, code, cmd) ==
    [method |-> "POST", uri |-> VONAGE_URL_BASE \o path \o "/json",
     request_ids |-> <<rid>>, code |-> code, cmd |-> cmd]

\* serde_urlencoded::to_string, the outcomes it can have for a request
\* body.  The bodies of check and control are flat structs of strings, which
\* always encode.  The bodies of send (flattened variant struct, f64 amount,
\* country id) and of search (a sequence-valued field) hold values whose
\* encoding is decided by the serializer, so both outcomes are kept.
EncodeOutcomes(op) ==
    IF op \in {"check", "cancel", "trigger_next_event"} THEN {TRUE} ELSE BOOLEAN

\* const PATH of impl Verification for Normal / Psd2
PATH(variant) == IF variant = "Psd2" THEN "/verify/psd2" ELSE "/verify"

\* ------------------------------------------------------ the return values
\* What a finished call returned: the operation, the requests it issued on
\* the transport, the response it consumed, and its Result (val names the
\* variant of the Ok value, err the ErrorKind, vec the Vec of search).
Ret(op, n, resp, ok, val, e, vec) ==
    [op |-> op, requests |-> n, resp |-> resp, ok |-> ok,
     val |-> val, err |-> e, vec |-> vec]

NoRet == Ret("none", 0, NoResp, TRUE, "None", NoError, <<>>)

\* ------------------------------------------------------ verify/request.rs
\* A variant of Verify::new that builds the request whatever the client has.
Verify_new_NoKeyNeeded(auth) ==
    [ok |-> TRUE,
     body |-> [variant |-> "Normal", api_key |-> auth.api_key[1],
               api_secret |-> auth.api_key[2], code_length |-> "None", workflow_id |-> 0],
     err |-> NoError]

\* Verify::new: the builder of the standard variant, if the client has an
\* API key pair.
Verify_new(auth) ==
    LET k == api_key_pair(auth) IN
    IF k.ok
    THEN [ok |-> TRUE,
          body |-> [variant |-> "Normal", api_key |-> k.pair[1], api_secret |-> k.pair[2],
                    code_length |-> "None", workflow_id |-> 0],
          err |-> NoError]
    ELSE [ok |-> FALSE, body |-> NoBuilder, err |-> k.err]

\* A variant of send_result whose attempt budget follows the code length.
send_result_BudgetFromCodeLength(body, resp) ==
    IF resp.transport = "error"
    THEN [ok |-> FALSE, val |-> "None", handle |-> NoHandle, err |-> from_hyper_error]
    ELSE LET d == decode_response(resp) IN
         IF d.ok
         THEN [ok |-> TRUE, val |-> "PendingVerify",
               handle |-> [api_key |-> body.api_key, api_secret |-> body.api_secret,
                           request_id |-> d.request_id,
                           attempts_remaining |->
                               IF body.code_length = "Six"
                               THEN MAX_CHECK_ATTEMPTS + 1 ELSE MAX_CHECK_ATTEMPTS],
               err |-> NoError]
         ELSE [ok |-> FALSE, val |-> "None", handle |-> NoHandle, err |-> d.err]

\* Verify::send after the call: the handle built from a decoded success.
send_result(body, resp) ==
    IF resp.transport = "error"
    THEN [ok |-> FALSE, val |-> "None", handle |-> NoHandle, err |-> from_hyper_error]
    ELSE LET d == decode_response(resp) IN
         IF d.ok
         THEN [ok |-> TRUE, val |-> "PendingVerify",
               handle |-> [api_key |-> body.api_key, api_secret |-> body.api_secret,
                           request_id |-> d.request_id,
                           attempts_remaining |-> MAX_CHECK_ATTEMPTS],
               err |-> NoError]
         ELSE [ok |-> FALSE, val |-> "None", handle |-> NoHandle, err |-> d.err]

\* ------------------------------------------------------ verify/pending.rs
\* Variants of check_result with one slip each, used to test the properties.
\* The mismatch arm gives the handle back without counting the attempt.
check_result_NoDecrement(self, resp) ==
    IF resp.transport = "error"
    THEN [ok |-> FALSE, val |-> "None", handle |-> NoHandle, err |-> from_hyper_error]
    ELSE LET d == decode_response(resp) IN
         IF d.ok
         THEN [ok |-> TRUE, val |-> "Match", handle |-> NoHandle, err |-> NoError]
         ELSE IF is_code_mismatch(d.err) /\ self.attempts_remaining > 0
         THEN [ok |-> TRUE, val |-> "Mismatch", handle |-> self, err |-> NoError]
         ELSE [ok |-> FALSE, val |-> "None", handle |-> NoHandle, err |-> d.err]

\* The mismatch arm is taken while more than one attempt remains.
check_result_GuardOffByOne(self, resp) ==
    IF resp.transport = "error"
    THEN [ok |-> FALSE, val |-> "None", handle |-> NoHandle, err |-> from_hyper_error]
    ELSE LET d == decode_response(resp) IN
         IF d.ok
         THEN [ok |-> TRUE, val |-> "Match", handle |-> NoHandle, err |-> NoError]
         ELSE IF is_code_mismatch(d.err) /\ self.attempts_remaining > 1
         THEN [ok |-> TRUE, val |-> "Mismatch",
               handle |-> [self EXCEPT !.attempts_remaining = @ - 1],
               err |-> NoError]
         ELSE [ok |-> FALSE, val |-> "None", handle |-> NoHandle, err |-> d.err]

\* The mismatch arm has no guard on the counter.
check_result_Unguarded(self, resp) ==
    IF resp.transport = "error"
    THEN [ok |-> FALSE, val |-> "None", handle |-> NoHandle, err |-> from_hyper_error]
    ELSE LET d == decode_response(resp) IN
         IF d.ok
         THEN [ok |-> TRUE, val |-> "Match", handle |-> NoHandle, err |-> NoError]
         ELSE IF is_code_mismatch(d.err)
         THEN [ok |-> TRUE, val |-> "Mismatch",
               handle |-> [self EXCEPT !.attempts_remaining = @ - 1],
               err |-> NoError]
         ELSE [ok |-> FALSE, val |-> "None", handle |-> NoHandle, err |-> d.err]

\* A match is refused once the counter is at 0.
check_result_MatchNeedsBudget(self, resp) ==
    IF resp.transport = "error"
    THEN [ok |-> FALSE, val |-> "None", handle |-> NoHandle, err |-> from_hyper_error]
    ELSE LET d == decode_response(resp) IN
         IF d.ok /\ self.attempts_remaining > 0
         THEN [ok |-> TRUE, val |-> "Match", handle |-> NoHandle, err |-> NoError]
         ELSE IF is_code_mismatch(d.err) /\ self.attempts_remaining > 0
         THEN [ok |-> TRUE, val |-> "Mismatch",
               handle |-> [self EXCEPT !.attempts_remaining = @ - 1],
               err |-> NoError]
         ELSE [ok |-> FALSE, val |-> "None", handle |-> NoHandle,
               err |-> IF d.ok THEN new_verify ELSE d.err]

\* PendingVerify::check after the call: the match on the decoded response.
\* attempts_remaining is a usize; the model keeps it a mathematical integer,
\* so a decrement below 0 would show as a negative value.
check_result(self, resp) ==
    IF resp.transport = "error"
    THEN [ok |-> FALSE, val |-> "None", handle |-> NoHandle, err |-> from_hyper_error]
    ELSE LET d == decode_response(resp) IN
         IF d.ok
         THEN [ok |-> TRUE, val |-> "Match", handle |-> NoHandle, err |-> NoError]
         ELSE IF is_code_mismatch(d.err) /\ self.attempts_remaining > 0
         THEN [ok |-> TRUE, val |-> "Mismatch",
               handle |-> [self EXCEPT !.attempts_remaining = @ - 1],
               err |-> NoError]
         ELSE [ok |-> FALSE, val |-> "None", handle |-> NoHandle, err |-> d.err]

\* A variant of control_command_result that treats a code mismatch the way
\* check does.
control_command_result_RetriesMismatch(self, resp) ==
    IF resp.transport = "error"
    THEN [ok |-> FALSE, val |-> "None", handle |-> self, err |-> from_hyper_error]
    ELSE LET d == decode_response(resp) IN
         IF d.ok
         THEN [ok |-> TRUE, val |-> "Unit", handle |-> self, err |-> NoError]
         ELSE IF is_code_mismatch(d.err) /\ self.attempts_remaining > 0
         THEN [ok |-> TRUE, val |-> "Mismatch",
               handle |-> [self EXCEPT !.attempts_remaining = @ - 1],
               err |-> NoError]
         ELSE [ok |-> FALSE, val |-> "None", handle |-> self, err |-> d.err]

\* A variant of control_command_result that takes the handle on success.
control_command_result_ConsumesOnOk(self, resp) ==
    IF resp.transport = "error"
    THEN [ok |-> FALSE, val |-> "None", handle |-> self, err |-> from_hyper_error]
    ELSE LET d == decode_response(resp) IN
         IF d.ok
         THEN [ok |-> TRUE, val |-> "Unit", handle |-> NoHandle, err |-> NoError]
         ELSE [ok |-> FALSE, val |-> "None", handle |-> self, err |-> d.err]

\* PendingVerify::control_command after the call; self is only borrowed.
control_command_result(self, resp) ==
    IF resp.transport = "error"
    THEN [ok |-> FALSE, val |-> "None", handle |-> self, err |-> from_hyper_error]
    ELSE LET d == decode_response(resp) IN
         IF d.ok
         THEN [ok |-> TRUE, val |-> "Unit", handle |-> self, err |-> NoError]
         ELSE [ok |-> FALSE, val |-> "None", handle |-> self, err |-> d.err]

\* ------------------------------------------------------- verify/search.rs
\* enum Response (untagged) of search: a record decodes as Success(VerifyInfo)
\* or as Error { status } with a status ErrorCode knows, or not at all.
RecordDecodes(item) ==
    item.status = "info" \/ item.status \in SearchErrorCode

\* A variant of search_result that takes every error record for an absent one.
search_result_AnyErrorIsNone(resp) ==
    IF resp.transport = "error"
    THEN [ok |-> FALSE, vec |-> <<>>, err |-> from_hyper_error]
    ELSE IF resp.http # 200
    THEN [ok |-> FALSE, vec |-> <<>>, err |-> from_status_code(resp.http)]
    ELSE IF resp.transport = "body_error"
    THEN [ok |-> FALSE, vec |-> <<>>, err |-> from_hyper_error]
    ELSE IF resp.status # "list"
    THEN [ok |-> FALSE, vec |-> <<>>, err |-> new_verify]
    ELSE [ok |-> TRUE,
          vec |-> [i \in 1..Len(resp.list) |->
                     IF resp.list[i].status = "info"
                     THEN resp.list[i].request_id ELSE "None"],
          err |-> NoError]

\* search after the call: the body decodes as a Vec<Response> only if every
\* record of it decodes; then one Option per record of the provider's list.
search_result(resp) ==
    IF resp.transport = "error"
    THEN [ok |-> FALSE, vec |-> <<>>, err |-> from_hyper_error]
    ELSE IF resp.http # 200
    THEN [ok |-> FALSE, vec |-> <<>>, err |-> from_status_code(resp.http)]
    ELSE IF resp.transport = "body_error"
    THEN [ok |-> FALSE, vec |-> <<>>, err |-> from_hyper_error]
    ELSE IF resp.status # "list"
    THEN [ok |-> FALSE, vec |-> <<>>, err |-> new_verify]
    ELSE IF \E i \in 1..Len(resp.list) : ~RecordDecodes(resp.list[i])
    THEN [ok |-> FALSE, vec |-> <<>>, err |-> new_verify]
    ELSE [ok |-> TRUE,
          vec |-> [i \in 1..Len(resp.list) |->
                     IF resp.list[i].status = "info"
                     THEN resp.list[i].request_id ELSE "None"],
          err |-> NoError]

\* ----------------------------------------------------------------- sig.rs
\* Texts are sequences of characters.  A field name of the parameter struct
\* is one character of its own (an identifier: no part of it is changed by
\* the encoding).

\* The field names a parameter struct can have, in ascending byte order.
ParamKeys == <<"from", "sig", "to">>

\* The characters of a parameter value: a letter and the two separators.
ValueChars == {"a", "&", "="}

ParamValues == SeqUpTo(ValueChars, MaxValueLen)

\* The secrets and the methods of a Signature (enum SignatureMethod).
\* The secret "secret" of the tests of sig.rs, and another one.
SecretOfTests == <<"s", "e", "c", "r", "e", "t">>

Secrets == {SecretOfTests, <<"s", "1">>}

SignatureMethod == {"Md5Hash", "Md5Hmac", "Sha1Hmac", "Sha256Hmac", "Sha512Hmac"}

KeyRank(k) == CHOOSE i \in 1..Len(ParamKeys) : ParamKeys[i] = k

\* serde_urlencoded::to_string, one text: the characters outside the
\* unreserved set are percent-encoded ('&' as %26, '=' as %3D).
RECURSIVE byte_serialize(_)
byte_serialize(text) ==
    IF text = <<>> THEN <<>>
    ELSE (IF Head(text) = "&" THEN <<"%", "2", "6">>
          ELSE IF Head(text) = "=" THEN <<"%", "3", "D">>
          ELSE <<Head(text)>>) \o byte_serialize(Tail(text))

\* serde_urlencoded::to_string of a struct: name=value pairs in field order,
\* joined by '&'.
RECURSIVE urlencoded_to_string(_)
urlencoded_to_string(params) ==
    IF params = <<>> THEN <<>>
    ELSE LET n == Len(params) IN
         urlencoded_to_string(SubSeq(params, 1, n - 1))
         \o (IF n > 1 THEN <<"&">> ELSE <<>>)
         \o byte_serialize(<<params[n][1]>>) \o <<"=">> \o byte_serialize(params[n][2])

\* The text before the first sep of a text, and the text after it.
RECURSIVE Before(_, _)
Before(text, sep) ==
    IF text = <<>> \/ Head(text) = sep THEN <<>>
    ELSE <<Head(text)>> \o Before(Tail(text), sep)

RECURSIVE After(_, _)
After(text, sep) ==
    IF text = <<>> THEN <<>>
    ELSE IF Head(text) = sep THEN Tail(text)
    ELSE After(Tail(text), sep)

\* form_urlencoded's percent-decoding of one name or value.
RECURSIVE percent_decode(_)
percent_decode(text) ==
    IF text = <<>> THEN <<>>
    ELSE IF Len(text) >= 3 /\ SubSeq(text, 1, 3) = <<"%", "2", "6">>
    THEN <<"&">> \o percent_decode(SubSeq(text, 4, Len(text)))
    ELSE IF Len(text) >= 3 /\ SubSeq(text, 1, 3) = <<"%", "3", "D">>
    THEN <<"=">> \o percent_decode(SubSeq(text, 4, Len(text)))
    ELSE <<Head(text)>> \o percent_decode(Tail(text))

\* The decoded text is a slice of the input (Cow::Borrowed) only if decoding
\* had nothing to change; otherwise it is a new String (Cow::Owned).
decode(text) ==
    LET d == percent_decode(text) IN [text |-> d, owned |-> d # text]

\* form_urlencoded::parse: the segments between '&', each split at its first
\* '=', empty segments skipped, names and values decoded.
RECURSIVE parse(_)
parse(encoded) ==
    IF encoded = <<>> THEN <<>>
    ELSE LET segment == Before(encoded, "&")
             rest == After(encoded, "&")
         IN (IF segment = <<>> THEN <<>>
             ELSE <<[name |-> decode(Before(segment, "=")),
                     value |-> decode(After(segment, "="))]>>)
            \o parse(rest)

\* serde_urlencoded::from_str into a BTreeMap<&str, &str>: a &str can only
\* borrow from the input, so a name or value that had to be decoded into a
\* new String is an error of the deserializer; later entries of a name
\* replace earlier ones.
from_str(encoded) ==
    LET parts == parse(encoded)
        names == {parts[i].name.text : i \in 1..Len(parts)}
        last(nm) == CHOOSE i \in 1..Len(parts) :
                      /\ parts[i].name.text = nm
                      /\ \A j \in (i + 1)..Len(parts) : parts[j].name.text # nm
    IN IF \E i \in 1..Len(parts) : parts[i].name.owned \/ parts[i].value.owned
       THEN [ok |-> FALSE, map |-> <<>>]
       ELSE [ok |-> TRUE, map |-> [nm \in names |-> parts[last(nm)].value.text]]

\* str::replace(&['&', '='][..], "_")
replace(text) ==
    [i \in 1..Len(text) |-> IF text[i] \in {"&", "="} THEN "_" ELSE text[i]]

\* The fold of to_payload_str over the names of sorted from rank on, in
\* ascending order.
RECURSIVE fold(_, _)
fold(sorted, rank) ==
    IF rank > Len(ParamKeys) THEN <<>>
    ELSE (IF <<ParamKeys[rank]>> \in DOMAIN sorted
          THEN <<"&", ParamKeys[rank], "=">> \o replace(sorted[<<ParamKeys[rank]>>])
          ELSE <<>>)
         \o fold(sorted, rank + 1)

\* fn to_payload_str: from_str(..).unwrap() panics on an error.
to_payload_str(query_params) ==
    LET encoded == urlencoded_to_string(query_params)
        parsed == from_str(encoded)
        sorted == [nm \in DOMAIN parsed.map \ {<<"sig">>} |-> parsed.map[nm]]
    IN IF parsed.ok
       THEN [panicked |-> FALSE, payload |-> fold(sorted, 1)]
       ELSE [panicked |-> TRUE, payload |-> <<>>]

\* The digests, as the algorithm with its key and the text it is applied to.
Digest(alg, key, msg) == [alg |-> alg, key |-> key, msg |-> msg]

NoDigest == Digest("none", <<>>, <<>>)

\* format!("{:x}", ..) of a digest: the lowercase hex text, known for the
\* digests the tests of sig.rs spell out ("?": not spelled out there).
format_hex(d) ==
    IF d = Digest("md5", <<>>, SecretOfTests)
    THEN "5ebe2294ecd0e0f08eab7690d2a6ee69"
    ELSE IF d = Digest("Sha1Hmac", SecretOfTests, <<>>)
    THEN "25af6174a0fcecc4d346680a72b7ce644b9a88e8"
    ELSE "?"

\* A variant of sign that hashes the secret before the payload and keys the
\* HMAC with the payload.
sign_SecretFirst(self, query_params) ==
    LET p == to_payload_str(query_params) IN
    IF p.panicked
    THEN [panicked |-> TRUE, payload |-> <<>>, hash |-> NoDigest]
    ELSE [panicked |-> FALSE, payload |-> p.payload,
          hash |-> IF self.method = "Md5Hash"
                   THEN Digest("md5", <<>>, self.secret \o p.payload)
                   ELSE Digest(self.method, p.payload, self.secret)]

\* Signature::sign
sign(self, query_params) ==
    LET p == to_payload_str(query_params) IN
    IF p.panicked
    THEN [panicked |-> TRUE, payload |-> <<>>, hash |-> NoDigest]
    ELSE [panicked |-> FALSE, payload |-> p.payload,
          hash |-> IF self.method = "Md5Hash"
                   THEN Digest("md5", <<>>, p.payload \o self.secret)
                   ELSE Digest(self.method, self.secret, p.payload)]

\* ------------------------------------------------------- impl Debug for ..
\* A rendering is the sequence of the pieces written to the Formatter.

\* #[derive(Debug)] struct ApiKey(String)
fmt_ApiKey(key) == <<"ApiKey(", key, ")">>

\* A variant of the Debug of ApiSecret as #[derive(Debug)] would write it.
fmt_ApiSecret_Derived(secret) == <<"ApiSecret(", secret, ")">>

\* impl Debug for ApiSecret
fmt_ApiSecret(secret) == <<"ApiSecret(", "<secret>", ")">>

\* impl Debug for Auth
fmt_Auth(auth) ==
    <<"Auth {", "api_key:">>
    \o (IF auth.api_key = None THEN <<"None">>
        ELSE <<"Some((">> \o fmt_ApiKey(auth.api_key[1])
             \o fmt_ApiSecret(auth.api_key[2]) \o <<"))">>)
    \o <<"jwt:">>
    \o (IF auth.jwt = None THEN <<"None">>
        ELSE <<"Some((", auth.jwt[1], "<private-key>", "))">>)
    \o <<"}">>

\* impl Debug for Signature
fmt_Signature(sig) ==
    <<"Signature {", "secret:", "secret", "method:", sig.method, "}">>

\* impl Debug for Verify, with the derived Debug of RequestBody
fmt_Verify(verify) ==
    <<"Verify {", "request_body:", "RequestBody {", "api_key:">>
    \o fmt_ApiKey(verify.api_key)
    \o <<"api_secret:">> \o fmt_ApiSecret(verify.api_secret)
    \o <<"code_length:", verify.code_length, "workflow_id:", verify.workflow_id,
         "variant:", verify.variant, "}", "}">>

\* impl Debug for PendingVerify
fmt_PendingVerify(pending_verify) ==
    <<"PendingVerify {", "api_key:">> \o fmt_ApiKey(pending_verify.api_key)
    \o <<"api_secret:">> \o fmt_ApiSecret(pending_verify.api_secret)
    \o <<"request_id:", pending_verify.request_id,
         "attempts_remaining:", pending_verify.attempts_remaining, "}">>

\* --------------------------------------------------- auth.rs: generate_jwt
\* The threads that call generate_jwt on the one Auth.
Threads == {"t1", "t2"}

\* The outcomes of rand::random() for node_id, the low bit of the first byte
\* set.
NodeIds == {"node-a", "node-b"}

\* uuid::v1::Context counts calls in an atomic usize and hands out its low
\* 16 bits; Uuid::new_v1 keeps the low 14 bits of them as the clock sequence.
ContextModulus == 2^16

ClockSeqModulus == 2^14

\* Uuid::new_v1(Timestamp::from_unix(&CLOCK_SEQUENCE, ..), &node_id) as a
\* string: the timestamp, the clock sequence and the node.
new_v1(time, counter, node_id) == <<time, counter % ClockSeqModulus, node_id>>

\* A claim value is absent (<<>>) or present (<<value>>).
Absent == <<>>

\* The claim sets a caller passes: an object with or without its own
\* application_id, iat and jti, or a value that is no object.
NotAnObject == [object |-> FALSE, application_id |-> Absent, iat |-> Absent, jti |-> Absent]

ClaimSets ==
    {NotAnObject}
    \cup [object : {TRUE},
          application_id : {Absent, <<"caller-app">>},
          iat : {Absent, <<99>>},
          jti : {Absent, <<"caller-jti">>}]

\* jsonwebtoken::encode(&Header::default(), &claims, &private_key)
Token(claims, private_key) == [claims |-> claims, key |-> private_key]

NoToken == Token(NotAnObject, "")

\* The call reaches gen_uuid_v1_str: there is JWT material, the claims are
\* an object and carry no jti.
NeedsJti(auth, claims) ==
    auth.jwt # None /\ claims.object /\ claims.jti = Absent

\* A variant of generate_jwt that inserts iat and jti as it inserts
\* application_id.
generate_jwt_InsertsAll(auth, claims, now, uuid) ==
    IF auth.jwt = None
    THEN [ok |-> FALSE, token |-> NoToken, err |-> new_auth]
    ELSE [ok |-> TRUE,
          token |-> Token(IF claims.object
                          THEN [object |-> TRUE, application_id |-> <<auth.jwt[1]>>,
                                iat |-> <<now>>, jti |-> <<uuid>>]
                          ELSE claims,
                          auth.jwt[2]),
          err |-> NoError]

\* Auth::generate_jwt, given what Utc::now().timestamp() and
\* gen_uuid_v1_str() yield when they are called.
generate_jwt(auth, claims, now, uuid) ==
    IF auth.jwt = None
    THEN [ok |-> FALSE, token |-> NoToken, err |-> new_auth]
    ELSE [ok |-> TRUE,
          token |-> Token(IF claims.object
                          THEN [object |-> TRUE,
                                application_id |-> <<auth.jwt[1]>>,
                                iat |-> IF claims.iat = Absent THEN <<now>> ELSE claims.iat,
                                jti |-> IF claims.jti = Absent THEN <<uuid>> ELSE claims.jti]
                          ELSE claims,
                          auth.jwt[2]),
          err |-> NoError]

\* ------------------------------------------------------------ the state
\* The caller of the example program: one builder or one handle at a time,
\* every call awaited before the next one is made.
VARIABLES
    auth_builder, \* ClientBuilder.auth_builder, the Auth under construction
    calls,        \* the api_key / jwt calls made on the ClientBuilder, in order
    client,       \* Client.authentication, or NoAuth while no client is built
    builder,      \* the Verify builder the caller holds, or NoBuilder
    pending,      \* the PendingVerify the caller holds, or NoHandle
    call,         \* the call in progress
    wire,         \* the requests the transport has not answered yet
    checks_sent,  \* check requests sent through the handle since its send()
    cancelled,    \* cancel() has returned Ok on the handle
    consumed,     \* check() has dropped the handle
                  \* (the three are histories of the chain begun by the last
                  \* Client::verify)
    ret,          \* the value the last finished call returned
    signature,    \* the Signature a parameter set is signed with
    query_params, \* the parameter struct given to sign: its (name, value)
                  \* fields in declaration order
    sig_out,      \* what sign has returned, or NoSigOut
    clock,        \* SystemTime::now(), in ticks
    clock_sequence, \* the count of the static CLOCK_SEQUENCE
    jwt_call,     \* per thread, the generate_jwt call it is in
    jtis,         \* the jti identifiers generated, in order
    jwt_ret       \* what the last finished generate_jwt returned

vars ==
    <<auth_builder, calls, client, builder, pending, call, wire,
      checks_sent, cancelled, consumed, ret, signature, query_params, sig_out,
      clock, clock_sequence, jwt_call, jtis, jwt_ret>>

\* What the verify lifecycle leaves alone, and what signing leaves alone.
sigVars == <<signature, query_params, sig_out>>

verifyVars ==
    <<auth_builder, calls, client, builder, pending, call, wire,
      checks_sent, cancelled, consumed, ret>>

jwtVars == <<clock, clock_sequence, jwt_call, jtis, jwt_ret>>

\* A thread outside generate_jwt, and one inside it with what it has read.
NoJwtCall == [pc |-> "idle", claims |-> NotAnObject, now |-> 0, node_id |-> ""]

NoJwtRet ==
    [thread |-> "", claims |-> NotAnObject, now |-> 0, uuid |-> <<>>,
     ok |-> TRUE, token |-> NoToken, err |-> NoError]

\* No generate_jwt call has been made.
JwtInit ==
    /\ clock = 0
    /\ clock_sequence = 0
    /\ jwt_call = [t \in Threads |-> NoJwtCall]
    /\ jtis = <<>>
    /\ jwt_ret = NoJwtRet

NoSignature == [secret |-> <<>>, method |-> "Md5Hash"]

NoSigOut == [panicked |-> FALSE, payload |-> <<>>, hash |-> NoDigest]

\* What the calls on a built client leave alone.
clientVars == <<auth_builder, calls, client>>

Init ==
    /\ auth_builder = NoAuth
    /\ calls = <<>>
    /\ client = NoAuth
    /\ builder = NoBuilder
    /\ pending = NoHandle
    /\ call = Idle
    /\ wire = <<>>
    /\ checks_sent = 0
    /\ cancelled = FALSE
    /\ consumed = FALSE
    /\ ret = NoRet
    /\ signature = NoSignature
    /\ query_params = <<>>
    /\ sig_out = NoSigOut
    /\ JwtInit

\* ----------------------------------------------------------------- lib.rs
\* ClientBuilder::api_key
ClientBuilderApiKey(pair) ==
    /\ client = NoAuth
    /\ Len(calls) < MaxBuilderCalls
    /\ auth_builder' = AuthBuilder_api_key(auth_builder, pair)
    /\ calls' = Append(calls, "api_key")
    /\ UNCHANGED <<client, builder, pending, call, wire, checks_sent, cancelled, consumed, ret>>
    /\ UNCHANGED <<sigVars, jwtVars>>

\* ClientBuilder::jwt
ClientBuilderJwt(pair) ==
    /\ client = NoAuth
    /\ Len(calls) < MaxBuilderCalls
    /\ auth_builder' = AuthBuilder_jwt(auth_builder, pair)
    /\ calls' = Append(calls, "jwt")
    /\ UNCHANGED <<client, builder, pending, call, wire, checks_sent, cancelled, consumed, ret>>
    /\ UNCHANGED <<sigVars, jwtVars>>

\* ClientBuilder::build: the builder is consumed; after an Err the caller is
\* left without a client and begins with a new Client::builder().
ClientBuilderBuild ==
    /\ client = NoAuth
    /\ LET r == AuthBuilder_build(auth_builder) IN
         /\ client' = r.auth
         /\ ret' = Ret("build", 0, NoResp, r.ok,
                       IF r.ok THEN "Client" ELSE "None", r.err, <<>>)
    /\ auth_builder' = NoAuth
    /\ calls' = <<>>
    /\ UNCHANGED <<builder, pending, call, wire, checks_sent, cancelled, consumed>>
    /\ UNCHANGED <<sigVars, jwtVars>>

\* Client::verify -> Verify::new
ClientVerify ==
    /\ client # NoAuth
    /\ builder = NoBuilder
    /\ pending = NoHandle
    /\ call.op = "idle"
    /\ LET r == Verify_new(client) IN
         /\ builder' = r.body
         /\ ret' = Ret("verify", 0, NoResp, r.ok,
                       IF r.ok THEN "Verify" ELSE "None", r.err, <<>>)
    /\ checks_sent' = 0
    /\ cancelled' = FALSE
    /\ consumed' = FALSE
    /\ UNCHANGED <<clientVars, pending, call, wire>>
    /\ UNCHANGED <<sigVars, jwtVars>>

\* ------------------------------------------------------ verify/request.rs
\* Verify::code_length
SetCodeLength(len) ==
    /\ builder # NoBuilder
    /\ builder' = [builder EXCEPT !.code_length = len]
    /\ UNCHANGED <<clientVars, pending, call, wire, checks_sent, cancelled, consumed, ret>>
    /\ UNCHANGED <<sigVars, jwtVars>>

\* Verify::workflow
SetWorkflow(w) ==
    /\ builder # NoBuilder
    /\ builder' = [builder EXCEPT !.workflow_id = w]
    /\ UNCHANGED <<clientVars, pending, call, wire, checks_sent, cancelled, consumed, ret>>
    /\ UNCHANGED <<sigVars, jwtVars>>

\* Verify::psd2: the builder of the PSD2 variant, shared fields carried over.
Psd2 ==
    /\ builder # NoBuilder
    /\ builder.variant = "Normal"
    /\ builder' = [builder EXCEPT !.variant = "Psd2"]
    /\ UNCHANGED <<clientVars, pending, call, wire, checks_sent, cancelled, consumed, ret>>
    /\ UNCHANGED <<sigVars, jwtVars>>

\* Verify::send up to http_client.call(request): the builder is moved in.
SendStart ==
    /\ builder # NoBuilder
    /\ call.op = "idle"
    /\ builder' = NoBuilder
    /\ \E encoded \in EncodeOutcomes("send") :
         IF encoded
         THEN /\ call' = [Idle EXCEPT !.op = "send", !.body = builder, !.requests = 1]
              /\ wire' = Append(wire, encode_request("POST", PATH(builder.variant), <<>>))
              /\ UNCHANGED ret
         ELSE /\ ret' = Ret("send", 0, NoResp, FALSE, "None", new_verify, <<>>)
              /\ UNCHANGED <<call, wire>>
    /\ UNCHANGED <<clientVars, pending, checks_sent, cancelled, consumed>>
    /\ UNCHANGED <<sigVars, jwtVars>>

\* Verify::send from the response on.
SendFinish ==
    /\ call.op = "send"
    /\ wire # <<>>
    /\ \E resp \in Responses :
         LET r == send_result(call.body, resp) IN
         /\ pending' = r.handle
         /\ ret' = Ret("send", call.requests, resp, r.ok, r.val, r.err, <<>>)
    /\ wire' = Tail(wire)
    /\ call' = Idle
    /\ UNCHANGED <<clientVars, builder, checks_sent, cancelled, consumed>>
    /\ UNCHANGED <<sigVars, jwtVars>>

\* ------------------------------------------------------ verify/pending.rs
\* PendingVerify::check up to http_client.call(request): self is moved in.
CheckStart(code) ==
    /\ pending # NoHandle
    /\ call.op = "idle"
    /\ checks_sent < MaxChecksSent
    /\ call' = [Idle EXCEPT !.op = "check", !.self = pending, !.requests = 1]
    /\ pending' = NoHandle
    /\ wire' = Append(wire, encode_request_post("/verify/check", pending.request_id, code, ""))
    /\ checks_sent' = checks_sent + 1
    /\ UNCHANGED <<clientVars, builder, cancelled, consumed, ret>>
    /\ UNCHANGED <<sigVars, jwtVars>>

\* PendingVerify::check from the response on.
CheckFinish ==
    /\ call.op = "check"
    /\ wire # <<>>
    /\ \E resp \in Responses :
         LET r == check_result(call.self, resp) IN
         /\ pending' = r.handle
         /\ ret' = Ret("check", call.requests, resp, r.ok, r.val, r.err, <<>>)
         /\ consumed' = (r.val # "Mismatch")
    /\ wire' = Tail(wire)
    /\ call' = Idle
    /\ UNCHANGED <<clientVars, builder, checks_sent, cancelled>>
    /\ UNCHANGED <<sigVars, jwtVars>>

\* A variant of ControlStart that does not need the exclusive borrow of the
\* handle: it starts whatever else is using the handle.
ControlStart_Unborrowed(cmd) ==
    /\ pending # NoHandle
    /\ call' = [Idle EXCEPT !.op = cmd, !.self = pending, !.requests = 1]
    /\ wire' = Append(wire, encode_request_post("/verify/control", pending.request_id, "", cmd))
    /\ UNCHANGED <<clientVars, builder, pending, checks_sent, cancelled, consumed, ret>>
    /\ UNCHANGED <<sigVars, jwtVars>>

\* PendingVerify::cancel / trigger_next_event -> control_command, up to
\* http_client.call(request): self is borrowed mutably.
ControlStart(cmd) ==
    /\ pending # NoHandle
    /\ call.op = "idle"
    /\ call' = [Idle EXCEPT !.op = cmd, !.self = pending, !.requests = 1]
    /\ wire' = Append(wire, encode_request_post("/verify/control", pending.request_id, "", cmd))
    /\ UNCHANGED <<clientVars, builder, pending, checks_sent, cancelled, consumed, ret>>
    /\ UNCHANGED <<sigVars, jwtVars>>

\* control_command from the response on.
ControlFinish ==
    /\ call.op \in {"cancel", "trigger_next_event"}
    /\ wire # <<>>
    /\ \E resp \in Responses :
         LET r == control_command_result(pending, resp) IN
         /\ pending' = r.handle
         /\ ret' = Ret(call.op, call.requests, resp, r.ok, r.val, r.err, <<>>)
         /\ cancelled' = (cancelled \/ (call.op = "cancel" /\ r.ok))
    /\ wire' = Tail(wire)
    /\ call' = Idle
    /\ UNCHANGED <<clientVars, builder, checks_sent, consumed>>
    /\ UNCHANGED <<sigVars, jwtVars>>

\* ------------------------------------------------------- verify/search.rs
\* A variant of SearchStart without the test for an empty list.
SearchStart_AlwaysCalls(n) ==
    /\ call.op = "idle"
    /\ n > 0 => pending # NoHandle
    /\ \E encoded \in EncodeOutcomes("search") :
         IF encoded
         THEN /\ call' = [Idle EXCEPT !.op = "search", !.n = n, !.requests = 1]
              /\ wire' = Append(wire, encode_request("GET", "/verify/search",
                                        [i \in 1..n |-> pending.request_id]))
              /\ UNCHANGED ret
         ELSE /\ ret' = Ret("search", 0, NoResp, FALSE, "None", new_verify, <<>>)
              /\ UNCHANGED <<call, wire>>
    /\ UNCHANGED <<clientVars, builder, pending, checks_sent, cancelled, consumed>>
    /\ UNCHANGED <<sigVars, jwtVars>>

\* search up to http_client.call(request), given n references to the handle.
SearchStart(n) ==
    /\ call.op = "idle"
    /\ n > 0 => pending # NoHandle
    /\ IF n = 0
       THEN /\ ret' = Ret("search", 0, NoResp, TRUE, "Vec", NoError, <<>>)
            /\ UNCHANGED <<call, wire>>
       ELSE \E encoded \in EncodeOutcomes("search") :
            IF encoded
            THEN /\ call' = [Idle EXCEPT !.op = "search", !.n = n, !.requests = 1]
                 /\ wire' = Append(wire, encode_request("GET", "/verify/search",
                                           [i \in 1..n |-> pending.request_id]))
                 /\ UNCHANGED ret
            ELSE /\ ret' = Ret("search", 0, NoResp, FALSE, "None", new_verify, <<>>)
                 /\ UNCHANGED <<call, wire>>
    /\ UNCHANGED <<clientVars, builder, pending, checks_sent, cancelled, consumed>>
    /\ UNCHANGED <<sigVars, jwtVars>>

\* search from the response on.
SearchFinish ==
    /\ call.op = "search"
    /\ wire # <<>>
    /\ \E resp \in SearchResponses :
         LET r == search_result(resp) IN
         ret' = Ret("search", call.requests, resp, r.ok,
                    IF r.ok THEN "Vec" ELSE "None", r.err, r.vec)
    /\ wire' = Tail(wire)
    /\ call' = Idle
    /\ UNCHANGED <<clientVars, builder, pending, checks_sent, cancelled, consumed>>
    /\ UNCHANGED <<sigVars, jwtVars>>

\* ---------------------------------------------------------- the program
Next ==
    \/ \E pair \in ApiKeyPairs : ClientBuilderApiKey(pair)
    \/ \E pair \in Jwts : ClientBuilderJwt(pair)
    \/ ClientBuilderBuild
    \/ ClientVerify
    \/ \E len \in CodeLengths : SetCodeLength(len)
    \/ \E w \in Workflows : SetWorkflow(w)
    \/ Psd2
    \/ SendStart
    \/ SendFinish
    \/ \E code \in Codes : CheckStart(code)
    \/ CheckFinish
    \/ \E cmd \in {"cancel", "trigger_next_event"} : ControlStart(cmd)
    \/ ControlFinish
    \/ \E n \in 0..MaxSearch : SearchStart(n)
    \/ SearchFinish

Spec == Init /\ [][Next]_vars

\* ------------------------------------------- examples/verify_phone.rs
\* The handles send() can return to a client built from an API key pair.
FreshHandles(pair) ==
    LET body == [api_key |-> pair[1], api_secret |-> pair[2]] IN
    {send_result(body, resp).handle : resp \in {r \in Responses : send_result(body, r).ok}}

\* main after `.send().await?`: the caller holds a fresh handle.
InitLoop ==
    /\ auth_builder = NoAuth
    /\ calls = <<>>
    /\ \E pair \in ApiKeyPairs :
         /\ client = [api_key |-> pair, jwt |-> None]
         /\ pending \in FreshHandles(pair)
    /\ builder = NoBuilder
    /\ call = Idle
    /\ wire = <<>>
    /\ checks_sent = 0
    /\ cancelled = FALSE
    /\ consumed = FALSE
    /\ ret = NoRet
    /\ signature = NoSignature
    /\ query_params = <<>>
    /\ sig_out = NoSigOut
    /\ JwtInit

\* The loop of main: check on the handle held, and again on the handle a
\* Mismatch gives back; Match breaks out of the loop and `?` returns on Err.
NextLoop ==
    \/ \E code \in Codes : CheckStart(code)
    \/ CheckFinish

\* The loop runs on while it holds a handle, and every call of the http
\* client resolves, to a response or to an error.
SpecLoop ==
    /\ InitLoop
    /\ [][NextLoop]_vars
    /\ WF_vars(\E code \in Codes : CheckStart(code))
    /\ WF_vars(CheckFinish)

\* ----------------------------------------------------------------- sig.rs
\* The caller of sign: a Signature of some secret and method, a parameter
\* struct of distinct fields, one call of sign on it.
Signatures == [secret : Secrets, method : SignatureMethod]

InitSig ==
    /\ auth_builder = NoAuth
    /\ calls = <<>>
    /\ client = NoAuth
    /\ builder = NoBuilder
    /\ pending = NoHandle
    /\ call = Idle
    /\ wire = <<>>
    /\ checks_sent = 0
    /\ cancelled = FALSE
    /\ consumed = FALSE
    /\ ret = NoRet
    /\ signature \in Signatures
    /\ query_params = <<>>
    /\ sig_out = NoSigOut
    /\ JwtInit

HasField(params, k) == \E i \in 1..Len(params) : params[i][1] = k

\* The next field of the parameter struct.
AddParam(k, v) ==
    /\ sig_out = NoSigOut
    /\ ~HasField(query_params, k)
    /\ query_params' = Append(query_params, <<k, v>>)
    /\ UNCHANGED <<signature, sig_out>>
    /\ UNCHANGED <<verifyVars, jwtVars>>

\* Signature::sign on the parameter struct.
Sign ==
    /\ sig_out = NoSigOut
    /\ sig_out' = sign(signature, query_params)
    /\ UNCHANGED <<signature, query_params>>
    /\ UNCHANGED <<verifyVars, jwtVars>>

NextSig ==
    \/ \E k \in {ParamKeys[i] : i \in 1..Len(ParamKeys)}, v \in ParamValues : AddParam(k, v)
    \/ Sign

SpecSig == InitSig /\ [][NextSig]_vars

\* --------------------------------------------------- auth.rs: generate_jwt
\* The callers of generate_jwt: threads of one process sharing one Auth, the
\* system clock and the static CLOCK_SEQUENCE.
BuiltAuths ==
    {a \in [api_key : ApiKeyPairs \cup {None}, jwt : Jwts \cup {None}] :
        AuthBuilder_build(a).ok}

InitJwt ==
    /\ auth_builder = NoAuth
    /\ calls = <<>>
    /\ client \in BuiltAuths
    /\ builder = NoBuilder
    /\ pending = NoHandle
    /\ call = Idle
    /\ wire = <<>>
    /\ checks_sent = 0
    /\ cancelled = FALSE
    /\ consumed = FALSE
    /\ ret = NoRet
    /\ signature = NoSignature
    /\ query_params = <<>>
    /\ sig_out = NoSigOut
    /\ JwtInit

\* generate_jwt up to the fetch_add in Timestamp::from_unix: the thread has
\* read the clock for iat, drawn its node_id and read the clock again.
GenerateJwtStart(t, claims) ==
    /\ jwt_call[t].pc = "idle"
    /\ Len(jtis) < MaxJtis
    /\ \E node_id \in NodeIds :
         jwt_call' = [jwt_call EXCEPT ![t] =
                        [pc |-> "called", claims |-> claims, now |-> clock,
                         node_id |-> node_id]]
    /\ UNCHANGED <<clock, clock_sequence, jtis, jwt_ret>>
    /\ UNCHANGED <<verifyVars, sigVars>>

\* generate_jwt from the fetch_add on: the sequence number is taken, the
\* uuid built, the claims completed and the token returned.  A call that
\* generates no jti leaves the counter alone.
GenerateJwtFinish(t) ==
    /\ jwt_call[t].pc = "called"
    /\ LET c == jwt_call[t]
           uuid == new_v1(c.now, clock_sequence, c.node_id)
           r == generate_jwt(client, c.claims, c.now, uuid)
       IN /\ IF NeedsJti(client, c.claims)
             THEN /\ clock_sequence' = (clock_sequence + 1) % ContextModulus
                  /\ jtis' = Append(jtis, uuid)
             ELSE UNCHANGED <<clock_sequence, jtis>>
          /\ jwt_ret' = [thread |-> t, claims |-> c.claims, now |-> c.now, uuid |-> uuid,
                         ok |-> r.ok, token |-> r.token, err |-> r.err]
    /\ jwt_call' = [jwt_call EXCEPT ![t] = NoJwtCall]
    /\ UNCHANGED clock
    /\ UNCHANGED <<verifyVars, sigVars>>

\* The system clock moves on by a tick.
Tick ==
    /\ clock < MaxClock
    /\ clock' = clock + 1
    /\ UNCHANGED <<clock_sequence, jwt_call, jtis, jwt_ret>>
    /\ UNCHANGED <<verifyVars, sigVars>>

\* Calls of gen_uuid_v1_str that are not followed: as many as bring the
\* clock sequence back to the value it has now, less one.
OtherCalls ==
    /\ client.jwt # None
    /\ clock_sequence < ClockSeqModulus - 1
    /\ clock_sequence' = (clock_sequence + ClockSeqModulus - 1) % ContextModulus
    /\ UNCHANGED <<clock, jwt_call, jtis, jwt_ret>>
    /\ UNCHANGED <<verifyVars, sigVars>>

\* One caller, every claim set.
NextJwt ==
    \/ \E claims \in ClaimSets : GenerateJwtStart("t1", claims)
    \/ GenerateJwtFinish("t1")
    \/ Tick

SpecJwt == InitJwt /\ [][NextJwt]_vars

\* The claim sets that make generate_jwt generate a jti.
ClaimSetsWithoutJti ==
    {c \in ClaimSets : c.object /\ c.jti = Absent /\ c.application_id = Absent}

\* Concurrent callers whose claim sets carry no jti.
NextJti ==
    \/ \E t \in Threads, claims \in ClaimSetsWithoutJti : GenerateJwtStart(t, claims)
    \/ \E t \in Threads : GenerateJwtFinish(t)
    \/ Tick
    \/ OtherCalls

SpecJti == InitJwt /\ [][NextJti]_vars

\* ------------------------------------------------------------ properties
\* The shapes of a response, read off the response itself.
IsSuccessResponse(resp) ==
    resp.transport = "ok" /\ resp.http = 200 /\ resp.status = "0"

IsMismatchResponse(resp) ==
    resp.transport = "ok" /\ resp.http = 200 /\ resp.status = "16"

IsOtherProviderFailure(resp) ==
    resp.transport = "ok" /\ resp.http = 200 /\ resp.status \notin {"0", "16"}

IsTransportOrHttpFailure(resp) ==
    resp.transport # "ok" \/ resp.http # 200

\* The step in which a call of op returns with its response handled.
Returns(op) == call.op = op /\ call'.op = "idle"

\* C1: a check answered with a code mismatch (provider status 16) while
\* attempts_remaining > 0 returns Ok(Mismatch(handle')) and no error, where
\* handle' has the request id and credentials of the input handle and
\* attempts_remaining exactly one lower.
C1_MismatchReturnsDecrementedHandle ==
    [][(/\ Returns("check")
        /\ IsMismatchResponse(ret'.resp)
        /\ call.self.attempts_remaining > 0)
       => /\ ret'.ok /\ ret'.val = "Mismatch" /\ ret'.err = NoError
          /\ pending'.request_id = call.self.request_id
          /\ pending'.api_key = call.self.api_key
          /\ pending'.api_secret = call.self.api_secret
          /\ pending'.attempts_remaining = call.self.attempts_remaining - 1]_vars

C1_Witness ==
    /\ ret.op = "check" /\ ret.val = "Mismatch" /\ ret.resp.status = "16"
    /\ pending.attempts_remaining = 1
    /\ pending.request_id = "req-2" /\ pending.api_key = "key-b"

\* C2: check surfaces an error, and gives back no handle, exactly when the
\* response is a code mismatch while attempts_remaining = 0, or any other
\* provider failure, or a transport/HTTP failure; so along a run of code
\* mismatches the handle ends at the mismatch met with attempts_remaining = 0.
C2_CheckErrorsExactly ==
    [][Returns("check")
       => /\ (~ret'.ok) <=>
               \/ IsMismatchResponse(ret'.resp) /\ call.self.attempts_remaining = 0
               \/ IsOtherProviderFailure(ret'.resp)
               \/ IsTransportOrHttpFailure(ret'.resp)
          /\ (~ret'.ok) =>
               /\ pending' = NoHandle /\ consumed'
               /\ ret'.val = "None" /\ ret'.err # NoError]_vars

C2_Witness ==
    /\ ret.op = "check" /\ ~ret.ok /\ ret.resp.status = "16"
    /\ ret.err = new_code_mismatch
    /\ pending = NoHandle /\ consumed /\ checks_sent = 4

\* C3: a check answered with a success returns Ok(Match(verified)) whatever
\* attempts_remaining is (3, 2, 1 or 0), and the handle is consumed: no
\* further check request goes out for it.
C3_SuccessReturnsMatch ==
    /\ [][(Returns("check") /\ IsSuccessResponse(ret'.resp))
          => /\ call.self.attempts_remaining \in 0..3
             /\ ret'.ok /\ ret'.val = "Match" /\ ret'.err = NoError
             /\ pending' = NoHandle /\ consumed']_vars
    /\ [][consumed => (pending' = NoHandle /\ checks_sent' <= checks_sent)]_vars

C3_Witness ==
    /\ ret.op = "check" /\ ret.ok /\ ret.val = "Match" /\ ret.resp.status = "0"
    /\ checks_sent = 4 /\ pending = NoHandle /\ consumed

\* C4: every handle the caller holds in the Pending state has
\* attempts_remaining in {1, 2, 3}; none has attempts_remaining = 0.
C4_PendingHasOneToThree ==
    pending # NoHandle => pending.attempts_remaining \in {1, 2, 3}

\* C5: at most 3 check requests are sent along the chain of handles that
\* descends from one send(), whatever the provider answers.
C5_AtMostThreeChecks ==
    checks_sent <= 3

\* The handle of the chain, wherever it is: with the caller, or moved into a
\* check that has not returned.
Held ==
    IF pending # NoHandle THEN pending
    ELSE IF call.op = "check" THEN call.self ELSE NoHandle

\* C6: after any sequence of send, check, cancel and trigger_next_event, a
\* handle's attempts_remaining is never greater than it was earlier in the
\* chain and is never negative.
C6_AttemptsNeverIncreaseNorNegative ==
    /\ [](Held # NoHandle => Held.attempts_remaining >= 0)
    /\ [][(Held # NoHandle /\ Held' # NoHandle)
          => Held'.attempts_remaining <= Held.attempts_remaining]_vars

C6_Witness ==
    /\ pending # NoHandle /\ pending.attempts_remaining = 0
    /\ cancelled /\ ret.op = "trigger_next_event" /\ checks_sent = 3

\* C7: a successful send() returns a PendingVerify with attempts_remaining
\* = 3 whatever the builder holds, with the request id of the provider's
\* response and the credentials of the builder; a failed send() (encoding,
\* transport, non-200, provider failure) returns the error and no handle.
C7_SendSeedsThreeAttempts ==
    /\ [][Returns("send")
          => IF IsSuccessResponse(ret'.resp)
             THEN /\ ret'.ok /\ ret'.val = "PendingVerify" /\ ret'.err = NoError
                  /\ pending' = [api_key |-> call.body.api_key,
                                 api_secret |-> call.body.api_secret,
                                 request_id |-> ret'.resp.request_id,
                                 attempts_remaining |-> 3]
             ELSE /\ ~ret'.ok /\ ret'.val = "None" /\ ret'.err # NoError
                  /\ pending' = NoHandle]_vars
    /\ [][(builder # NoBuilder /\ builder' = NoBuilder /\ call'.op = "idle")
          => /\ ret'.op = "send" /\ ~ret'.ok /\ ret'.err # NoError
             /\ pending' = NoHandle]_vars

C7_Witness ==
    /\ ret.op = "send" /\ ret.ok /\ ret.resp.request_id = "req-2"
    /\ pending = [api_key |-> client.api_key[1], api_secret |-> client.api_key[2],
                  request_id |-> "req-2", attempts_remaining |-> 3]

\* C8: cancel() and trigger_next_event(), whether they succeed or fail with
\* any error (a code mismatch included), leave the handle's
\* attempts_remaining, request id and credentials unchanged and never turn a
\* failure into a "try again" result.
C8_ControlLeavesHandle ==
    /\ [][(Returns("cancel") \/ Returns("trigger_next_event"))
          => /\ pending' = pending /\ pending' = call.self /\ pending' # NoHandle
             /\ checks_sent' = checks_sent
             /\ ret'.val # "Mismatch"
             /\ ret'.ok <=> IsSuccessResponse(ret'.resp)
             /\ (~ret'.ok) => ret'.err # NoError]_vars
    /\ [][(call.op = "idle" /\ call'.op \in {"cancel", "trigger_next_event"})
          => pending' = pending]_vars

C8_Witness ==
    /\ ret.op = "cancel" /\ ~ret.ok /\ ret.resp.status = "16"
    /\ ret.err = new_code_mismatch
    /\ pending # NoHandle /\ pending.attempts_remaining = 3

\* The step in which a check, cancel or trigger_next_event request goes out.
IssuesThroughHandle ==
    call.op = "idle" /\ call'.op \in {"check", "cancel", "trigger_next_event"}

\* C9 as stated: after cancel() has succeeded on a handle, no further check,
\* cancel or trigger_next_event request is issued through that handle.
C9_NoRequestAfterCancel ==
    [][cancelled => ~IssuesThroughHandle]_vars

\* C9 as amended: a handle is destroyed by check, not by cancellation.  Once
\* check has consumed the handle no further check, cancel or
\* trigger_next_event request is issued through it; a cancel() that succeeds
\* leaves the caller the unchanged handle, through which further requests
\* can be issued.
C9_CheckConsumesCancelDoesNot ==
    /\ [][consumed => ~IssuesThroughHandle]_vars
    /\ [][(Returns("cancel") /\ ret'.ok)
          => (pending' = call.self /\ pending' # NoHandle)]_vars
    /\ []((cancelled /\ ~consumed /\ call.op = "idle")
          => /\ pending # NoHandle
             /\ ENABLED ControlStart("cancel")
             /\ ENABLED ControlStart("trigger_next_event")
             /\ ENABLED CheckStart("1234"))

C9_Witness ==
    /\ cancelled /\ ~consumed
    /\ call.op = "check" /\ Len(wire) = 1
    /\ wire[1].uri = "https://api.nexmo.com/verify/check/json"

Operations == {"send", "check", "cancel", "trigger_next_event", "search"}

\* C10 as stated: every invocation of send, check, cancel,
\* trigger_next_event or search issues exactly one outbound request.
C10_ExactlyOneRequest ==
    ret.op \in Operations => ret.requests = 1

\* C10 as amended: every invocation issues at most one outbound request:
\* exactly one, except that a search given no handles, and a send or search
\* whose request fails to encode, issue none and return at once.  A call
\* that issued its request returns only after the response (or transport
\* error) has come back, and no request is left on the transport by a call
\* that has returned.
C10_AtMostOneRequest ==
    /\ Len(wire) = (IF call.op = "idle" THEN 0 ELSE 1)
    /\ call.op # "idle" => call.requests = 1
    /\ call.op = "search" => call.n > 0
    /\ ret.op \in Operations =>
         /\ ret.requests \in {0, 1}
         /\ ret.requests = 1 <=> ret.resp # NoResp
         /\ ret.requests = 0 =>
              \/ ret.op = "search" /\ ret.ok /\ ret.vec = <<>>
              \/ ret.op \in {"send", "search"} /\ ~ret.ok /\ ret.err = new_verify

C10_Witness ==
    /\ ret.op = "search" /\ ret.requests = 1 /\ ret.ok /\ Len(ret.vec) = 2
    /\ call.op = "idle" /\ wire = <<>>

\* C11: a search given N handles returns exactly one slot per input handle,
\* in input order: the result has length N and slot i is the record for the
\* request id of input handle i, or its absence, whatever list the provider
\* answers with.
C11_OneSlotPerInputHandle ==
    [][Returns("search") /\ ret'.ok =>
         /\ Len(ret'.vec) = call.n
         /\ \A i \in 1..call.n :
              ret'.vec[i] \in {"None", wire[1].request_ids[i]}]_vars

\* The search call that has returned consumed a response whose body is a list
\* of records.
SearchGotList ==
    /\ ret.op = "search" /\ ret.requests = 1
    /\ ret.resp.transport = "ok" /\ ret.resp.http = 200 /\ ret.resp.status = "list"

C13_EmptySearchMakesNoCall ==
    [][SearchStart(0) =>
         /\ ret' = Ret("search", 0, NoResp, TRUE, "Vec", NoError, <<>>)
         /\ wire' = wire
         /\ call' = call /\ call.op = "idle"]_vars

\* An empty search has returned while the caller holds a handle.
C13_Witness ==
    /\ ret.op = "search" /\ ret.ok /\ ret.requests = 0 /\ ret.vec = <<>>
    /\ pending # NoHandle /\ wire = <<>> /\ call.op = "idle"

\* The calls answered through decode_response.
DecodingOperations == {"send", "check", "cancel", "trigger_next_event"}

\* The error a call of these makes of a response: that of the transport
\* (http_client.call(request).await?) or that of decode_response.
CallError(resp) ==
    IF resp.transport = "error" THEN from_hyper_error ELSE decode_response(resp).err

\* C14: provider status 16, and only 16, is the code mismatch: its error has
\* kind Verify with code_mismatch = TRUE; every other failure (the other
\* provider statuses, an undecodable body, a non-200 HTTP status, a transport
\* error) has is_code_mismatch() = FALSE, and check returns Mismatch (its
\* retry path) on no response but a status 16.
C14_Only16IsCodeMismatch ==
    ret.op \in DecodingOperations /\ ret.requests = 1 =>
        /\ is_code_mismatch(CallError(ret.resp)) <=> IsMismatchResponse(ret.resp)
        /\ IsMismatchResponse(ret.resp) => CallError(ret.resp) = Err("Verify", 0, TRUE)
        /\ ~ret.ok =>
             /\ ret.err = CallError(ret.resp)
             /\ is_code_mismatch(ret.err) <=> IsMismatchResponse(ret.resp)
        /\ ret.val = "Mismatch" => ret.op = "check" /\ IsMismatchResponse(ret.resp)

\* A check has failed on a status 16 (budget used up) with a code mismatch
\* error.
C14_Witness ==
    /\ ret.op = "check" /\ ~ret.ok /\ ret.resp.status = "16"
    /\ is_code_mismatch(ret.err)

\* C15: decode_response fails on a non-200 response with an error of kind
\* Status carrying that status, whatever the body holds and whether or not
\* it can be read; on HTTP 200 a body of status "0" decodes to the typed
\* payload and a body of any other status decodes to a failure.
C15_DecodeResponse ==
    ret.op \in DecodingOperations /\ ret.requests = 1 /\ ret.resp.transport # "error" =>
        LET d == decode_response(ret.resp) IN
        /\ ret.resp.http # 200 =>
             /\ d = Fail(Err("Status", ret.resp.http, FALSE))
             /\ ~ret.ok /\ ret.err = d.err
        /\ ret.resp.http = 200 /\ ret.resp.transport = "ok" =>
             /\ ret.resp.status = "0" => d = Ok(ret.resp.request_id) /\ ret.ok
             /\ ret.resp.status # "0" =>
                  /\ ~d.ok /\ d.err.kind = "Verify"
                  /\ ret.val # "Mismatch" => ~ret.ok /\ ret.err = d.err

\* A send answered 401 with a body that would decode as a success has failed
\* with the Status error.
C15_Witness ==
    /\ ret.op = "send" /\ ret.resp.http = 401 /\ ret.resp.status = "0"
    /\ ~ret.ok /\ ret.err = from_status_code(401) /\ pending = NoHandle

\* C16: Client::verify on a client built with a JWT only returns an error of
\* kind Auth and no builder, so that no request of that client reaches the
\* transport; on a client that has an API key pair it returns Ok.
C16_VerifyNeedsApiKey ==
    /\ ret.op = "verify" =>
         /\ ret.ok <=> client.api_key # None
         /\ ret.ok => ret.val = "Verify" /\ ret.err = NoError
         /\ ~ret.ok =>
              /\ ret.err = Err("Auth", 0, FALSE) /\ ret.val = "None"
              /\ builder = NoBuilder
    /\ client.api_key = None =>
         /\ builder = NoBuilder /\ pending = NoHandle
         /\ call = Idle /\ wire = <<>>
    /\ builder # NoBuilder =>
         builder.api_key = client.api_key[1] /\ builder.api_secret = client.api_key[2]

\* Client::verify has failed on a client built with a JWT only.
C16_Witness ==
    /\ client.api_key = None /\ client.jwt \in Jwts
    /\ ret.op = "verify" /\ ~ret.ok /\ ret.err.kind = "Auth"

\* C17: ClientBuilder::build returns an Auth error when neither api_key nor
\* jwt was called on the builder, and Ok, with a client holding the
\* credentials set last, when at least one of them was called, in any order
\* and any number of times.
C17_BuildNeedsOneCredential ==
    [][ClientBuilderBuild =>
         /\ ret'.op = "build"
         /\ ret'.ok <=> calls # <<>>
         /\ ret'.ok => client' = auth_builder /\ client' # NoAuth
         /\ ~ret'.ok => ret'.err = Err("Auth", 0, FALSE) /\ client' = NoAuth]_vars

\* A client has been built after both api_key and jwt were called.
C17_Witness ==
    /\ ret.op = "build" /\ ret.ok
    /\ client.api_key \in ApiKeyPairs /\ client.jwt \in Jwts

\* C18: the request send() puts on the transport is a POST to the path
\* /verify/json under the base host for the standard builder and to
\* /verify/psd2/json for the PSD2 builder.
C18_SendPaths ==
    call.op = "send" /\ wire # <<>> =>
        /\ wire[1].method = "POST"
        /\ wire[1].uri = VONAGE_URL_BASE \o
               (IF call.body.variant = "Psd2" THEN "/verify/psd2/json" ELSE "/verify/json")

\* The canonical string of a parameter set as C19 states it: the entries
\* other than sig, by ascending key, each as "&key=value" with every '&' and
\* '=' of the value replaced by '_'.
RECURSIVE Canonical(_, _)
Canonical(params, rank) ==
    IF rank > Len(ParamKeys) THEN <<>>
    ELSE LET k == ParamKeys[rank]
             v == params[CHOOSE i \in 1..Len(params) : params[i][1] = k][2]
         IN (IF k # "sig" /\ HasField(params, k)
             THEN <<"&", k, "=">>
                  \o [i \in 1..Len(v) |-> IF v[i] \in {"&", "="} THEN "_" ELSE v[i]]
             ELSE <<>>)
            \o Canonical(params, rank + 1)

Signed == sig_out # NoSigOut

\* C19: for every parameter set, values that contain '&' or '=' included,
\* the string sign hashes is the canonical string: the sig entry left out,
\* the entries by ascending key, each emitted as "&key=value" with every
\* '&' and '=' of the value replaced by '_'.
C19_CanonicalString ==
    Signed =>
        /\ ~sig_out.panicked
        /\ sig_out.payload = Canonical(query_params, 1)

\* The parameter struct with one more field at position i + 1.
InsertAt(params, i, field) ==
    SubSeq(params, 1, i) \o <<field>> \o SubSeq(params, i + 1, Len(params))

\* C20: for a fixed secret and method, sign of a parameter set P with an
\* added sig entry of any value returns what sign of P returns, for every P;
\* and sign returns the same digest for the same input.
C20_SigEntryIgnored ==
    Signed /\ ~HasField(query_params, "sig") =>
        /\ sig_out = sign(signature, query_params)
        /\ \A v \in ParamValues, i \in 0..Len(query_params) :
             sign(signature, InsertAt(query_params, i, <<"sig", v>>)) = sig_out

\* C21: sign has no error outcome: for every secret, every method and every
\* parameter set, values containing '&' or '=' included, it returns a digest
\* and neither fails nor panics.
C21_SignNeverPanics ==
    Signed => ~sig_out.panicked /\ sig_out.hash # NoDigest

\* C22: the digest sign returns is, with the plain hash method, MD5 of the
\* canonical string followed by the secret, and with each HMAC method the
\* HMAC of that method with the secret as key and the canonical string as
\* message; for empty params and the secret "secret" the plain-hash digest
\* renders as 5ebe2294ecd0e0f08eab7690d2a6ee69 and the SHA1-HMAC digest as
\* 25af6174a0fcecc4d346680a72b7ce644b9a88e8.
C22_DigestOfCanonicalString ==
    Signed /\ ~sig_out.panicked =>
        LET canonical == Canonical(query_params, 1) IN
        /\ signature.method = "Md5Hash" =>
             sig_out.hash = [alg |-> "md5", key |-> <<>>, msg |-> canonical \o signature.secret]
        /\ signature.method # "Md5Hash" =>
             sig_out.hash = [alg |-> signature.method, key |-> signature.secret,
                             msg |-> canonical]
        /\ query_params = <<>> /\ signature.secret = <<"s", "e", "c", "r", "e", "t">> =>
             /\ signature.method = "Md5Hash" =>
                  format_hex(sig_out.hash) = "5ebe2294ecd0e0f08eab7690d2a6ee69"
             /\ signature.method = "Sha1Hmac" =>
                  format_hex(sig_out.hash) = "25af6174a0fcecc4d346680a72b7ce644b9a88e8"

\* A parameter set of two fields given out of key order, sig among them, has
\* been signed with an HMAC method.
C22_Witness ==
    /\ Signed /\ ~sig_out.panicked /\ signature.method = "Sha256Hmac"
    /\ Len(query_params) = 3
    /\ query_params[1][1] = "to" /\ query_params[2][1] = "sig" /\ query_params[3][1] = "from"
    /\ sig_out.payload = <<"&", "from", "=", "a", "&", "to", "=", "a">>

\* C23: generate_jwt on an Auth with JWT material, given an object claim
\* set, always sets application_id to the configured application id
\* (a caller's value is overwritten) and sets iat and jti only when the
\* caller did not supply them (a caller's iat and jti are kept); on an Auth
\* without JWT material it returns an error of kind Auth.
C23_GenerateJwtClaims ==
    jwt_ret # NoJwtRet =>
        /\ client.jwt = None =>
             ~jwt_ret.ok /\ jwt_ret.err = Err("Auth", 0, FALSE) /\ jwt_ret.token = NoToken
        /\ client.jwt # None =>
             /\ jwt_ret.ok /\ jwt_ret.err = NoError
             /\ jwt_ret.token.key = client.jwt[2]
             /\ jwt_ret.claims.object =>
                  LET in == jwt_ret.claims
                      out == jwt_ret.token.claims
                  IN /\ out.application_id = <<client.jwt[1]>>
                     /\ in.iat # <<>> => out.iat = in.iat
                     /\ in.iat = <<>> => out.iat = <<jwt_ret.now>>
                     /\ in.jti # <<>> => out.jti = in.jti
                     /\ in.jti = <<>> =>
                          /\ out.jti = <<jwt_ret.uuid>>
                          /\ jtis # <<>> /\ jtis[Len(jtis)] = jwt_ret.uuid

\* A call given its own application_id and iat but no jti has returned.
C23_Witness ==
    /\ jwt_ret.ok /\ client.jwt \in Jwts
    /\ jwt_ret.claims.application_id = <<"caller-app">>
    /\ jwt_ret.claims.iat = <<99>> /\ jwt_ret.claims.jti = <<>>
    /\ jwt_ret.token.claims.application_id = <<"app-1">>
    /\ jwt_ret.token.claims.iat = <<99>>
    /\ jwt_ret.token.claims.jti = <<jtis[Len(jtis)]>>

\* C24: any two jti identifiers generated by generate_jwt calls of one
\* process are distinct, also when the calls run concurrently within one
\* tick of the clock and after the clock sequence has wrapped around.
C24_JtisDistinct ==
    \A i, j \in 1..Len(jtis) : i # j => jtis[i] # jtis[j]

\* Texts an API secret or a JWT private key can be.
SecretTexts == {"secret-a", "secret-b", "pem-1", "pem-2"}

\* C25: the Debug rendering of an Auth, an ApiSecret, a Signature, a Verify
\* and a PendingVerify does not depend on the API secret, the JWT private
\* key or the signature secret: the object with any other secret in its
\* place renders the same.
C25_DebugHidesSecrets ==
    /\ \A s1, s2 \in SecretTexts : fmt_ApiSecret(s1) = fmt_ApiSecret(s2)
    /\ \A s \in SecretTexts :
         /\ client.api_key # None =>
              fmt_Auth([client EXCEPT !.api_key = <<client.api_key[1], s>>]) = fmt_Auth(client)
         /\ client.jwt # None =>
              fmt_Auth([client EXCEPT !.jwt = <<client.jwt[1], s>>]) = fmt_Auth(client)
         /\ builder # NoBuilder =>
              fmt_Verify([builder EXCEPT !.api_secret = s]) = fmt_Verify(builder)
         /\ pending # NoHandle =>
              fmt_PendingVerify([pending EXCEPT !.api_secret = s]) = fmt_PendingVerify(pending)
         /\ call.op = "send" =>
              fmt_Verify([call.body EXCEPT !.api_secret = s]) = fmt_Verify(call.body)
    /\ \A sig \in Signatures, s \in Secrets :
         fmt_Signature([sig EXCEPT !.secret = s]) = fmt_Signature(sig)

\* A handle is held by a client that has both an API secret and a private
\* key, and its rendering shows the placeholder.
C25_Witness ==
    /\ pending # NoHandle /\ pending.api_secret = "secret-b"
    /\ client.api_key # None /\ client.jwt # None
    /\ fmt_PendingVerify(pending)[8] = "<secret>"
    /\ fmt_Auth(client)[14] = "<private-key>"

\* The operations of a handle.
HandleOps == {"check", "cancel", "trigger_next_event"}

\* C26: for one handle at most one request (check, cancel or
\* trigger_next_event) is in flight at any time: while one has not
\* completed no check and no control command can start on the handle, and
\* once a check has started the caller has no handle left to use.
C26_OneRequestPerHandle ==
    call.op \in HandleOps =>
        /\ Len(wire) <= 1
        /\ call.op = "check" => pending = NoHandle
        /\ call.op # "check" => pending = call.self
        /\ \A code \in Codes : ~ENABLED CheckStart(code)
        /\ \A cmd \in {"cancel", "trigger_next_event"} : ~ENABLED ControlStart(cmd)

\* A control command is in flight on a handle that an earlier check gave
\* back.
C26_Witness ==
    /\ call.op \in {"cancel", "trigger_next_event"}
    /\ Len(wire) = 1
    /\ pending # NoHandle
    /\ checks_sent >= 1

\* The chain has ended: no check is running and the caller has no handle.
ChainEnded == call.op = "idle" /\ pending = NoHandle

\* C27: the loop that calls check on the handle each Mismatch returns, from
\* a fresh handle, ends for every sequence of answers: no more than 4 checks
\* are sent, and the chain ends, in Match or in an error, with no handle
\* left.
C27_LoopTerminates ==
    /\ [](checks_sent <= MAX_CHECK_ATTEMPTS + 1)
    /\ [](ChainEnded => ret.op = "check" /\ (ret.val = "Match" \/ ~ret.ok))
    /\ [](checks_sent = MAX_CHECK_ATTEMPTS + 1 /\ call.op = "idle" => ChainEnded)
    /\ <>[]ChainEnded

\* The fourth check, sent after three mismatches, has ended the chain in an
\* error.
C27_Witness ==
    /\ checks_sent = MAX_CHECK_ATTEMPTS + 1
    /\ ChainEnded
    /\ ~ret.ok
    /\ ret.resp.status = "16"

====
